---- MODULE Spec2Model ----
(***************************************************************************)
(* Model of src/server.py: the WhisperCapRover streaming transcription     *)
(* server.  One process-wide WhisperCapRoverTranscriber (audio deque,      *)
(* decode thread, result queue), created by initialize_transcriber, is     *)
(* used by every WebSocket connection handler of WhisperCapRoverServer.    *)
(*                                                                         *)
(* Connection handlers are coroutines of one asyncio event loop: they      *)
(* interleave with each other only at an await.  The decode loop is a      *)
(* real thread: it interleaves with the handlers between any two of its    *)
(* steps.  deque.extend, list(deque) and queue.Queue.put/get_nowait are    *)
(* single C-level calls made under the interpreter lock and are atomic.    *)
(***************************************************************************)
EXTENDS Integers, Sequences, FiniteSets, TLC

\* ------------------------------------------------------------------ bounds
\* Decode threads the transcriber may create.
MaxThreads == 2
\* The engine's returns are counted up to this many.
MaxReturns == 2
\* Audio chunks with samples in them that the clients send in total.
MaxChunks == 2
\* Samples per second: 16000 in the source, scaled down.
SampleRate == 1

\* --------------------------------------------------------------- constants
\* deque(maxlen=16000 * 5)
BufferSeconds == 5
\* len(self.audio_buffer) >= 16000 * 2 ; list(self.audio_buffer)[-16000 * 2:]
WindowSeconds == 2
\* audio_array.astype(np.float32) / 32768.0
Int16Scale == 32768

Capacity == SampleRate * BufferSeconds
Window == SampleRate * WindowSeconds

\* The two concurrent connections.
Conns == {1, 2}
Threads == 1..MaxThreads

Min(a, b) == IF a < b THEN a ELSE b

\* ------------------------------------------------------------------ base64
\* Strings are sequences of one-character strings.
B64Alphabet ==
    << "A","B","C","D","E","F","G","H","I","J","K","L","M","N","O","P",
       "Q","R","S","T","U","V","W","X","Y","Z","a","b","c","d","e","f",
       "g","h","i","j","k","l","m","n","o","p","q","r","s","t","u","v",
       "w","x","y","z","0","1","2","3","4","5","6","7","8","9","+","/" >>

IsB64Char(ch) == \E i \in 1..64 : B64Alphabet[i] = ch

B64Value(ch) == (CHOOSE i \in 1..64 : B64Alphabet[i] = ch) - 1

\* binascii.a2b_base64 in its default, non-strict mode, which is what
\* base64.b64decode(s) calls: characters outside the alphabet are skipped,
\* a sufficient run of "=" ends the parse, and leftover data characters
\* raise binascii.Error (ok = FALSE).
RECURSIVE a2b_base64(_, _, _, _, _, _)
a2b_base64(s, i, quad_pos, pads, leftchar, bin) ==
    IF i > Len(s)
    THEN [ok |-> quad_pos = 0, bytes |-> bin]
    ELSE IF s[i] = "="
    THEN IF quad_pos >= 2 /\ quad_pos + pads + 1 >= 4
         THEN [ok |-> TRUE, bytes |-> bin]
         ELSE a2b_base64(s, i + 1, quad_pos,
                         IF quad_pos >= 2 THEN pads + 1 ELSE pads, leftchar, bin)
    ELSE IF ~IsB64Char(s[i])
    THEN a2b_base64(s, i + 1, quad_pos, pads, leftchar, bin)
    ELSE LET v == B64Value(s[i]) IN
         CASE quad_pos = 0 -> a2b_base64(s, i + 1, 1, 0, v, bin)
           [] quad_pos = 1 -> a2b_base64(s, i + 1, 2, 0, v % 16,
                                         Append(bin, leftchar * 4 + (v \div 16)))
           [] quad_pos = 2 -> a2b_base64(s, i + 1, 3, 0, v % 4,
                                         Append(bin, leftchar * 16 + (v \div 4)))
           [] OTHER        -> a2b_base64(s, i + 1, 0, 0, 0,
                                         Append(bin, leftchar * 64 + v))

b64decode(s) == a2b_base64(s, 1, 0, 0, 0, <<>>)

\* np.frombuffer(audio_data, dtype=np.int16): little-endian signed 16-bit;
\* a byte count that is not a multiple of 2 raises ValueError (ok = FALSE).
ToInt16(u) == IF u >= 32768 THEN u - 65536 ELSE u

frombuffer(bytes) ==
    IF Len(bytes) % 2 # 0
    THEN [ok |-> FALSE, array |-> <<>>]
    ELSE [ok |-> TRUE,
          array |-> [k \in 1..(Len(bytes) \div 2) |->
                        ToInt16(bytes[2 * k - 1] + 256 * bytes[2 * k])]]

\* audio_array.astype(np.float32) / 32768.0: the sample i becomes the
\* float i/32768, exact in float32; kept as <<numerator, denominator>>.
astype_float(array) == [k \in 1..Len(array) |-> <<array[k], Int16Scale>>]

\* ------------------------------------------------------------- the clients
\* What a client does to produce the "data" field: PCM16LE bytes, base64.
PCM16(samples) ==
    [k \in 1..(2 * Len(samples)) |->
        LET u == IF samples[(k + 1) \div 2] < 0
                 THEN samples[(k + 1) \div 2] + 65536
                 ELSE samples[(k + 1) \div 2]
        IN  IF k % 2 = 1 THEN u % 256 ELSE u \div 256]

RECURSIVE b64encode(_)
b64encode(bytes) ==
    IF Len(bytes) = 0 THEN <<>>
    ELSE IF Len(bytes) = 1
    THEN << B64Alphabet[(bytes[1] \div 4) + 1],
            B64Alphabet[(bytes[1] % 4) * 16 + 1], "=", "=" >>
    ELSE IF Len(bytes) = 2
    THEN << B64Alphabet[(bytes[1] \div 4) + 1],
            B64Alphabet[(bytes[1] % 4) * 16 + (bytes[2] \div 16) + 1],
            B64Alphabet[(bytes[2] % 16) * 4 + 1], "=" >>
    ELSE << B64Alphabet[(bytes[1] \div 4) + 1],
            B64Alphabet[(bytes[1] % 4) * 16 + (bytes[2] \div 16) + 1],
            B64Alphabet[(bytes[2] % 16) * 4 + (bytes[3] \div 64) + 1],
            B64Alphabet[(bytes[3] % 64) + 1] >>
         \o b64encode(SubSeq(bytes, 4, Len(bytes)))

\* Connection c streams a tone of its own: every sample has the value c.
Tone(c, n) == b64encode(PCM16([k \in 1..n |-> c]))

\* The "data" fields connection c sends: a short chunk, a chunk larger than
\* the buffer, and strings that are not base64 of PCM16 audio.
GoodData(c) == { Tone(c, 1), Tone(c, Capacity + 1) }

BadData(c) ==
    { SubSeq(Tone(c, 1), 1, 3),                      \* "AQA": padding missing
      b64encode(<<c>>),                              \* "AQ==": one byte
      <<"!">> \o Tone(c, 1),                         \* "!AQA=": foreign character
      <<>> }                                         \* empty string

ControlTypes == {"start_session", "end_session", "ping"}

\* A text frame as json.loads sees it: json = FALSE is a frame that is not
\* JSON; otherwise the object's "type" and "data".
BadJson == [json |-> FALSE, type |-> "", data |-> <<>>]

Control(type) == [json |-> TRUE, type |-> type, data |-> <<>>]

AudioChunk(data) == [json |-> TRUE, type |-> "audio_chunk", data |-> data]

Messages ==
    [c \in Conns |->
        {BadJson} \cup {Control(t) : t \in ControlTypes}
                  \cup {AudioChunk(d) : d \in GoodData(c) \cup BadData(c)}]

\* handle_audio_chunk and add_audio up to the floats: b64decode, then
\* np.frombuffer(..., dtype=np.int16).astype(np.float32) / 32768.0; ok is
\* FALSE when either raises.
decode_audio(data) ==
    LET decoded == b64decode(data)
        array == frombuffer(decoded.bytes)
    IN  [ok |-> decoded.ok /\ array.ok,
         floats |-> IF decoded.ok /\ array.ok
                    THEN astype_float(array.array) ELSE <<>>]

\* decode_audio, tabulated over the data fields the clients send.
DecodedAudio ==
    [d \in UNION {GoodData(c) \cup BadData(c) : c \in Conns} |-> decode_audio(d)]

\* ------------------------------------------------------------ the engine
\* whisper_live's TranscriptionClient is an external collaborator; it is
\* modelled by the stub engines the specification's tests name.  Every
\* invocation may also fail.
Stubs == {"same", "derived", "empty"}

Whitespace == {" ", "\t", "\n"}

SameText == <<" ", "h", "i", "\n">>

Digits == <<"0", "1", "2", "3", "4", "5", "6", "7", "8", "9">>

\* Input-derived text: one digit per sample of the window.
DerivedText(window) == [k \in 1..Len(window) |-> Digits[window[k][1] + 1]]

\* What self.transcriber.transcribe(audio_chunk) does: it raises, returns
\* nothing, or returns a result object with text and is_final.
Raised == [raised |-> TRUE, none |-> FALSE, text |-> <<>>, is_final |-> FALSE]

NoResult == [raised |-> FALSE, none |-> TRUE, text |-> <<>>, is_final |-> FALSE]

Result(text, final) ==
    [raised |-> FALSE, none |-> FALSE, text |-> text, is_final |-> final]

transcribe(stub, window) ==
    {Raised} \cup
    CASE stub = "same"    -> {Result(SameText, FALSE)}
      [] stub = "derived" -> {Result(DerivedText(window), TRUE)}
      [] OTHER            -> {NoResult, Result(<<>>, FALSE), Result(<<" ">>, FALSE)}

\* The text used as it comes from the engine.
no_strip(s) == s

\* str.strip()
RECURSIVE lstrip(_)
lstrip(s) ==
    IF s # <<>> /\ Head(s) \in Whitespace THEN lstrip(Tail(s)) ELSE s

RECURSIVE rstrip(_)
rstrip(s) ==
    IF s # <<>> /\ s[Len(s)] \in Whitespace
    THEN rstrip(SubSeq(s, 1, Len(s) - 1)) ELSE s

strip(s) == rstrip(lstrip(s))

\* ------------------------------------------------------------------- state
\* f"session-{int(time.time() * 1000)}"
SessionId(ms) == <<"session", ms>>

VARIABLES
    \* WhisperCapRoverServer
    now,                \* int(time.time() * 1000)
    active_sessions,    \* self.active_sessions: session id -> entry
    cstate,             \* per connection: "new", "open", "closed"
    session_id,         \* per connection: handle_websocket's local session_id
    hpc,                \* per connection: where its handler coroutine is
    results,            \* per connection: handle_audio_chunk's local results
    sent,               \* per connection: transcription messages it received
    removals,           \* per connection: entries its handler deleted
    \* WhisperCapRoverTranscriber (one instance, self.transcriber)
    audio_buffer,       \* self.audio_buffer
    is_processing,      \* self.is_processing
    processing_thread,  \* self.processing_thread (0 is None)
    result_queue,       \* self.result_queue
    last_transcription, \* self.last_transcription
    \* decode threads
    tpc,                \* per thread: where it is
    audio_chunk,        \* per thread: _process_with_whisperlive's local
    \* the engine in use and the history of the run
    engine_stub,
    phase,              \* per connection: the protocol state its messages
                        \* have put the session in: "created", "active"
                        \* (after start_session), "ended" (after
                        \* end_session or the end of the connection)
    returned,           \* how often the engine returned a result object
    appended,           \* every sample add_audio ever appended, in order
    batches,            \* how many add_audio calls appended samples
    pushed,             \* every result ever put on the queue, in order
    drained,            \* every result get_results ever returned, in order
    \* a caller of WhisperCapRoverTranscriber.stop()
    spc,                \* where the caller is: "idle", or "join" inside
                        \* processing_thread.join(timeout=1.0)
    stopped_at,         \* Len(pushed) when stop() last cleared a set flag
    late_add            \* add_audio was called with the flag cleared by
                        \* stop() and the thread still alive

server_vars ==
    <<now, active_sessions, cstate, session_id, hpc, results, sent, removals>>

transcriber_vars ==
    <<audio_buffer, is_processing, processing_thread, result_queue,
      last_transcription>>

thread_vars == <<tpc, audio_chunk>>

history_vars ==
    <<phase, engine_stub, returned, appended, batches, pushed, drained>>

caller_vars == <<spc, stopped_at, late_add>>

vars ==
    <<server_vars, transcriber_vars, thread_vars, history_vars, caller_vars>>

\* WhisperCapRoverServer.__init__, initialize_transcriber and
\* WhisperCapRoverTranscriber.__init__ have run; no connection yet.
Init ==
    /\ now = 0
    /\ active_sessions = [x \in {} |-> x]
    /\ cstate = [c \in Conns |-> "new"]
    /\ session_id = [c \in Conns |-> SessionId(0)]
    /\ hpc = [c \in Conns |-> "idle"]
    /\ results = [c \in Conns |-> <<>>]
    /\ sent = [c \in Conns |-> <<>>]
    /\ removals = [c \in Conns |-> 0]
    /\ audio_buffer = <<>>
    /\ is_processing = FALSE
    /\ processing_thread = 0
    /\ result_queue = <<>>
    /\ last_transcription = <<>>
    /\ tpc = [t \in Threads |-> "unstarted"]
    /\ audio_chunk = [t \in Threads |-> <<>>]
    /\ engine_stub \in Stubs
    /\ phase = [c \in Conns |-> "created"]
    /\ returned = 0
    /\ appended = <<>>
    /\ batches = 0
    /\ pushed = <<>>
    /\ drained = <<>>
    /\ spc = "idle"
    /\ stopped_at = 0
    /\ late_add = FALSE

\* ------------------------------------------------------------ transcriber
\* A deque that, once full, refuses new elements instead of dropping old ones.
RECURSIVE deque_extend_keep_oldest(_, _, _)
deque_extend_keep_oldest(buf, xs, maxlen) ==
    IF xs = <<>> THEN buf
    ELSE deque_extend_keep_oldest(
             IF Len(buf) >= maxlen THEN buf ELSE Append(buf, Head(xs)),
             Tail(xs), maxlen)

\* collections.deque(maxlen=n).extend(xs): each element is appended on the
\* right and, when the deque is over its maxlen, the leftmost one is dropped.
RECURSIVE deque_extend(_, _, _)
deque_extend(buf, xs, maxlen) ==
    IF xs = <<>> THEN buf
    ELSE LET b == Append(buf, Head(xs)) IN
         deque_extend(IF Len(b) > maxlen THEN Tail(b) ELSE b, Tail(xs), maxlen)

\* The slice [:16000 * 2] in place of [-16000 * 2:].
snapshot_oldest(buf) ==
    IF Len(buf) <= Window THEN buf ELSE SubSeq(buf, 1, Window)

\* list(self.audio_buffer)[-16000 * 2:] : a new list, the deque untouched.
snapshot(buf) ==
    IF Len(buf) <= Window THEN buf
    ELSE SubSeq(buf, Len(buf) - Window + 1, Len(buf))

\* threading.Thread.is_alive(): the thread is in connect(), at the head of
\* the loop, about to copy the window, inside transcribe(), inside a
\* transcribe() that never returns, or in the loop's except clause.
Alive == {"connect", "check", "snap", "engine", "hung", "except"}

is_alive(t) == tpc[t] \in Alive

FreshThread ==
    CHOOSE t \in Threads :
        /\ tpc[t] = "unstarted"
        /\ \A u \in Threads : tpc[u] = "unstarted" => t <= u

\* _start_processing setting the flag whether or not it creates a thread.
start_processing_sets_flag ==
    /\ is_processing' = TRUE
    /\ IF processing_thread = 0 \/ ~is_alive(processing_thread)
       THEN /\ \E t \in Threads : tpc[t] = "unstarted"
            /\ processing_thread' = FreshThread
            /\ tpc' = [tpc EXCEPT ![FreshThread] = "connect"]
       ELSE UNCHANGED <<processing_thread, tpc>>

\* _start_processing without the is_alive test.
start_processing_unchecked ==
    /\ \E t \in Threads : tpc[t] = "unstarted"
    /\ is_processing' = TRUE
    /\ processing_thread' = FreshThread
    /\ tpc' = [tpc EXCEPT ![FreshThread] = "connect"]

\* _start_processing: a thread is created only when there is none or the
\* last one is no longer alive.
start_processing ==
    IF processing_thread = 0 \/ ~is_alive(processing_thread)
    THEN /\ \E t \in Threads : tpc[t] = "unstarted"
         /\ is_processing' = TRUE
         /\ processing_thread' = FreshThread
         /\ tpc' = [tpc EXCEPT ![FreshThread] = "connect"]
    ELSE UNCHANGED <<is_processing, processing_thread, tpc>>

\* add_audio, after the bytes became floats.
add_audio(floats) ==
    /\ audio_buffer' = deque_extend(audio_buffer, floats, Capacity)
    /\ appended' = appended \o floats
    /\ batches' = IF floats = <<>> THEN batches ELSE batches + 1
    /\ late_add' = (\/ late_add
                    \/ /\ ~is_processing
                       /\ processing_thread # 0
                       /\ is_alive(processing_thread))
    /\ IF ~is_processing
       THEN start_processing
       ELSE UNCHANGED <<is_processing, processing_thread, tpc>>

\* A put at the head of the queue.
queue_put_front(q, item) == <<item>> \o q

\* queue.Queue: put appends, get_nowait takes the oldest item.
queue_put(q, item) == Append(q, item)

queue_get(q) == [item |-> Head(q), rest |-> Tail(q)]

\* The comparison with the last text left out.
always_new_content(text, last) == TRUE

\* if text != self.last_transcription
is_new_content(text, last) == text # last

\* The StreamingTranscriptionResult built from an engine result; seq is the
\* object's identity (its position among the results ever queued).  The
\* wall-clock fields processing_time and timestamp are left out.
StreamingTranscriptionResult(text, final, seq) ==
    [text |-> text, is_final |-> final, confidence |-> "0.95",
     language |-> "en", partial |-> ~final, seq |-> seq]

\* ---------------------------------------------------------- decode thread
\* self.transcriber.connect(): it returns, or it raises and the thread dies
\* with RuntimeError; is_processing is left as it was.
T_Connect(t) ==
    /\ tpc[t] = "connect"
    /\ \E ok \in BOOLEAN :
          tpc' = [tpc EXCEPT ![t] = IF ok THEN "check" ELSE "failed"]
    /\ UNCHANGED <<server_vars, transcriber_vars, audio_chunk, history_vars,
                   caller_vars>>

\* The loop head without the test of the buffer's length.
T_Check_no_threshold(t) ==
    /\ tpc[t] = "check"
    /\ tpc' = [tpc EXCEPT ![t] = IF ~is_processing THEN "exited" ELSE "snap"]
    /\ UNCHANGED <<server_vars, transcriber_vars, audio_chunk, history_vars,
                   caller_vars>>

\* while self.is_processing: if len(self.audio_buffer) >= 16000 * 2: ...
\* else: time.sleep(0.05)
T_Check(t) ==
    /\ tpc[t] = "check"
    /\ tpc' = [tpc EXCEPT ![t] =
                  IF ~is_processing THEN "exited"
                  ELSE IF Len(audio_buffer) >= Window THEN "snap"
                  ELSE "check"]
    /\ UNCHANGED <<server_vars, transcriber_vars, audio_chunk, history_vars,
                   caller_vars>>

\* audio_chunk = np.array(list(self.audio_buffer)[-16000 * 2:])
T_Snapshot(t) ==
    /\ tpc[t] = "snap"
    /\ audio_chunk' = [audio_chunk EXCEPT ![t] = snapshot(audio_buffer)]
    /\ tpc' = [tpc EXCEPT ![t] = "engine"]
    /\ UNCHANGED <<server_vars, transcriber_vars, history_vars, caller_vars>>

\* An iteration without the inner try/except: an engine exception ends the
\* thread.
Transcribed_raise_exits(t, o) ==
    /\ tpc[t] = "engine"
    /\ returned' = IF ~o.raised /\ ~o.none
                    THEN Min(returned + 1, MaxReturns) ELSE returned
    /\ IF /\ ~o.raised
          /\ ~o.none
          /\ strip(o.text) # <<>>
          /\ is_new_content(strip(o.text), last_transcription)
       THEN LET tr == StreamingTranscriptionResult(
                          strip(o.text), o.is_final, Len(pushed) + 1)
            IN  /\ result_queue' = queue_put(result_queue, tr)
                /\ pushed' = Append(pushed, tr)
                /\ last_transcription' = strip(o.text)
       ELSE UNCHANGED <<result_queue, pushed, last_transcription>>
    /\ tpc' = [tpc EXCEPT ![t] = IF o.raised THEN "failed" ELSE "check"]
    /\ audio_chunk' = [audio_chunk EXCEPT ![t] = <<>>]
    /\ UNCHANGED <<server_vars, audio_buffer, is_processing, processing_thread,
                   engine_stub, phase, appended, batches, drained, caller_vars>>

\* result = self.transcriber.transcribe(audio_chunk) and what follows it up
\* to time.sleep(0.1): an exception takes the thread to the except clause;
\* a result with new, non-empty text is queued and remembered.  The local
\* audio_chunk is dead afterwards and is cleared.
Transcribed(t, o) ==
    /\ tpc[t] = "engine"
    /\ returned' = IF ~o.raised /\ ~o.none
                    THEN Min(returned + 1, MaxReturns) ELSE returned
    /\ IF /\ ~o.raised
          /\ ~o.none
          /\ strip(o.text) # <<>>
          /\ is_new_content(strip(o.text), last_transcription)
       THEN LET tr == StreamingTranscriptionResult(
                          strip(o.text), o.is_final, Len(pushed) + 1)
            IN  /\ result_queue' = queue_put(result_queue, tr)
                /\ pushed' = Append(pushed, tr)
                /\ last_transcription' = strip(o.text)
       ELSE UNCHANGED <<result_queue, pushed, last_transcription>>
    /\ tpc' = [tpc EXCEPT ![t] = IF o.raised THEN "except" ELSE "check"]
    /\ audio_chunk' = [audio_chunk EXCEPT ![t] = <<>>]
    /\ UNCHANGED <<server_vars, audio_buffer, is_processing, processing_thread,
                   engine_stub, phase, appended, batches, drained, caller_vars>>

T_Transcribe(t) ==
    \E o \in transcribe(engine_stub, audio_chunk[t]) : Transcribed(t, o)

\* except Exception as e: logger.error(...), then time.sleep(0.1) and back
\* to the head of the loop.
T_Except(t) ==
    /\ tpc[t] = "except"
    /\ tpc' = [tpc EXCEPT ![t] = "check"]
    /\ UNCHANGED <<server_vars, transcriber_vars, audio_chunk, history_vars,
                   caller_vars>>

\* ------------------------------------------------------ connection handlers
\* One coroutine runs at a time; a handler inside get_results has not
\* reached an await, so no other coroutine runs meanwhile.
LoopFree == \A d \in Conns : hpc[d] # "drain"

Entry(c, ms) ==
    [websocket |-> c, start_time |-> ms, audio_buffer |-> <<>>,
     last_transcription |-> "None"]

\* handle_websocket up to the welcome message: the session id is the clock
\* in milliseconds and the entry is stored under it, over whatever is there.
\* Only whether two readings of the clock are equal matters, so the first
\* reading is 0 and the clock stands still or advances by one between two
\* accepts.  Connections are numbered in the order they are accepted.
Accept(c, ms) ==
    /\ cstate[c] = "new"
    /\ \A d \in Conns : d < c => cstate[d] # "new"
    /\ LoopFree
    /\ ms = now \/ (ms = now + 1 /\ \E d \in Conns : cstate[d] # "new")
    /\ now' = ms
    /\ session_id' = [session_id EXCEPT ![c] = SessionId(ms)]
    /\ active_sessions' =
          [x \in DOMAIN active_sessions \cup {SessionId(ms)} |->
              IF x = SessionId(ms) THEN Entry(c, ms) ELSE active_sessions[x]]
    /\ cstate' = [cstate EXCEPT ![c] = "open"]
    /\ UNCHANGED <<hpc, results, sent, removals, transcriber_vars,
                   thread_vars, history_vars, caller_vars>>

\* handle_websocket's finally, reached from receive_text raising
\* WebSocketDisconnect ("disconnect": break) or anything else ("error": a
\* binary frame makes receive_text raise KeyError; the outer except logs it).
Teardown(c, cause) ==
    /\ cstate[c] = "open"
    /\ hpc[c] = "idle"
    /\ LoopFree
    /\ IF session_id[c] \in DOMAIN active_sessions
       THEN /\ active_sessions' =
                  [x \in DOMAIN active_sessions \ {session_id[c]} |->
                      active_sessions[x]]
            /\ removals' = [removals EXCEPT ![c] = @ + 1]
       ELSE UNCHANGED <<active_sessions, removals>>
    /\ cstate' = [cstate EXCEPT ![c] = "closed"]
    /\ phase' = [phase EXCEPT ![c] = "ended"]
    /\ UNCHANGED <<now, session_id, hpc, results, sent, transcriber_vars,
                   thread_vars, engine_stub, returned, appended, batches,
                   pushed, drained, caller_vars>>

\* A message whose handling leaves the state as it is.
NoEffect ==
    UNCHANGED <<hpc, cstate, thread_vars, history_vars, now, active_sessions,
                session_id, results, sent, removals, transcriber_vars,
                caller_vars>>

\* handle_start_session / handle_end_session: the confirmation is sent to
\* the websocket stored under the session id and nothing else is done; a
\* missing entry is a KeyError, which handle_message catches and logs.
Confirm(c, to) ==
    /\ phase' = [phase EXCEPT ![c] = to]
    /\ UNCHANGED <<server_vars, transcriber_vars, thread_vars, engine_stub,
                   returned, appended, batches, pushed, drained, caller_vars>>

handle_start_session(c) == Confirm(c, "active")

handle_end_session(c) == Confirm(c, "ended")

\* handle_audio_chunk up to the call of get_results: b64decode or
\* np.frombuffer raising is logged and ends the handling of the message.
handle_audio_chunk(c, data) ==
    IF ~DecodedAudio[data].ok
    THEN NoEffect
    ELSE /\ DecodedAudio[data].floats = <<>> \/ batches < MaxChunks
         /\ hpc' = [hpc EXCEPT ![c] = "drain"]
         /\ results' = [results EXCEPT ![c] = <<>>]
         /\ add_audio(DecodedAudio[data].floats)
         /\ UNCHANGED <<now, active_sessions, cstate, session_id, sent,
                        removals, result_queue, last_transcription,
                        audio_chunk, engine_stub, phase, returned, pushed,
                        drained, spc, stopped_at>>

\* A dispatcher that closes the connection on an audio_chunk that arrives
\* before start_session.
handle_message_needs_start(c, m) ==
    IF m.json /\ m.type = "audio_chunk" /\ phase[c] = "created"
    THEN /\ cstate' = [cstate EXCEPT ![c] = "closed"]
         /\ UNCHANGED <<now, active_sessions, session_id, hpc, results, sent,
                        removals, transcriber_vars, thread_vars, history_vars,
                        caller_vars>>
    ELSE IF ~m.json THEN NoEffect
    ELSE IF m.type = "start_session" THEN handle_start_session(c)
    ELSE IF m.type = "audio_chunk" THEN handle_audio_chunk(c, m.data)
    ELSE IF m.type = "end_session" THEN handle_end_session(c)
    ELSE NoEffect

\* handle_message
handle_message(c, m) ==
    IF ~m.json THEN NoEffect
    ELSE IF m.type = "start_session" THEN handle_start_session(c)
    ELSE IF m.type = "audio_chunk" THEN handle_audio_chunk(c, m.data)
    ELSE IF m.type = "end_session" THEN handle_end_session(c)
    ELSE NoEffect

\* What handle_message and the handlers it calls write to the log for
\* message m on connection c: logger.error in an except clause,
\* logger.warning for an unknown type, logger.info otherwise.
log_level(c, m) ==
    IF ~m.json THEN "error"
    ELSE IF m.type \in {"start_session", "end_session"}
    THEN IF session_id[c] \in DOMAIN active_sessions THEN "info" ELSE "error"
    ELSE IF m.type = "audio_chunk"
    THEN IF DecodedAudio[m.data].ok THEN "none" ELSE "error"
    ELSE "warning"

\* message = await websocket.receive_text(); await self.handle_message(...)
Receive(c, m) ==
    /\ cstate[c] = "open"
    /\ hpc[c] = "idle"
    /\ LoopFree
    /\ handle_message(c, m)

\* The wire message send_transcription builds.
Transcription(sid, r) ==
    [type |-> "transcription", text |-> r.text, is_final |-> r.is_final,
     partial |-> r.partial, segment_id |-> sid, seq |-> r.seq]

\* send_transcription up to its await: it returns at once when the session
\* id has no entry; otherwise the message goes to the websocket stored
\* under the session id.
send_transcription(c, r) ==
    IF session_id[c] \in DOMAIN active_sessions
    THEN sent' = [sent EXCEPT ![active_sessions[session_id[c]].websocket] =
                     Append(@, Transcription(session_id[c], r))]
    ELSE UNCHANGED sent

\* for result in results: await self.send_transcription(session_id, result)
\* One turn of the loop, up to the await of send_text.
send_next(c, rs) ==
    IF rs = <<>>
    THEN /\ hpc' = [hpc EXCEPT ![c] = "idle"]
         /\ results' = [results EXCEPT ![c] = <<>>]
         /\ UNCHANGED sent
    ELSE /\ send_transcription(c, Head(rs))
         /\ results' = [results EXCEPT ![c] = Tail(rs)]
         /\ hpc' = [hpc EXCEPT ![c] = IF Tail(rs) = <<>> THEN "idle" ELSE "send"]

\* get_results: while not self.result_queue.empty(): get_nowait().  The
\* decode thread may put between two turns of the loop.  When the queue is
\* found empty the list is returned and, with no await in between, the
\* first result is handed to send_transcription.
GetResults(c) ==
    /\ hpc[c] = "drain"
    /\ IF result_queue # <<>>
       THEN /\ results' = [results EXCEPT ![c] =
                              Append(@, queue_get(result_queue).item)]
            /\ result_queue' = queue_get(result_queue).rest
            /\ UNCHANGED <<hpc, drained, sent>>
       ELSE /\ drained' = drained \o results[c]
            /\ send_next(c, results[c])
            /\ UNCHANGED result_queue
    /\ UNCHANGED <<now, active_sessions, cstate, session_id, removals,
                   audio_buffer, is_processing, processing_thread,
                   last_transcription, thread_vars, engine_stub, phase,
                   returned, appended, batches, pushed, caller_vars>>

\* The send loop resumed after an await.
SendTranscription(c) ==
    /\ cstate[c] = "open"
    /\ hpc[c] = "send"
    /\ LoopFree
    /\ send_next(c, results[c])
    /\ UNCHANGED <<now, active_sessions, cstate, session_id, removals,
                   transcriber_vars, thread_vars, history_vars, caller_vars>>

\* ----------------------------------------------------------- specification
Next ==
    \/ \E c \in Conns : \E ms \in {now, now + 1} : Accept(c, ms)
    \/ \E c \in Conns : \E m \in Messages[c] : Receive(c, m)
    \/ \E c \in Conns : GetResults(c)
    \/ \E c \in Conns : SendTranscription(c)
    \/ \E c \in Conns : \E cause \in {"disconnect", "error"} : Teardown(c, cause)
    \/ \E t \in Threads : T_Connect(t)
    \/ \E t \in Threads : T_Check(t)
    \/ \E t \in Threads : T_Snapshot(t)
    \/ \E t \in Threads : T_Transcribe(t)
    \/ \E t \in Threads : T_Except(t)

Spec == Init /\ [][Next]_vars

\* The decode thread is scheduled and its engine calls return; a handler
\* that is not waiting for a message goes on.  Nothing makes a client send.
Fairness ==
    /\ \A t \in Threads :
          WF_vars(T_Connect(t) \/ T_Check(t) \/ T_Snapshot(t)
                    \/ T_Transcribe(t) \/ T_Except(t))
    /\ \A c \in Conns : WF_vars(GetResults(c) \/ SendTranscription(c))

FairSpec == Spec /\ Fairness

\* ------------------------------------------- the transcriber on its own
\* WhisperCapRoverTranscriber driven through its public methods add_audio
\* and stop() by one caller thread, with the decode threads it starts.
\* The server never calls stop(); here a caller may, at any time.

\* The byte strings the caller passes to add_audio, as floats.
CallerAudio == {DecodedAudio[d].floats : d \in GoodData(1) \cup {<<>>}}

Call_add_audio(floats) ==
    /\ spc = "idle"
    /\ floats = <<>> \/ batches < MaxChunks
    /\ add_audio(floats)
    /\ UNCHANGED <<server_vars, result_queue, last_transcription, audio_chunk,
                   engine_stub, phase, returned, pushed, drained, spc,
                   stopped_at>>

\* A join that waits for the thread however long it takes.
join_no_timeout(t, timed_out) == ~is_alive(t)

\* self.processing_thread.join(timeout=1.0) returns when the thread has
\* ended or when the second has passed.
join(t, timed_out) == ~is_alive(t) \/ timed_out

\* stop(): self.is_processing = False; if self.processing_thread: join
StopBegin ==
    /\ spc = "idle"
    /\ is_processing' = FALSE
    /\ stopped_at' = IF is_processing THEN Len(pushed) ELSE stopped_at
    /\ spc' = IF processing_thread # 0 THEN "join" ELSE "idle"
    /\ UNCHANGED <<server_vars, audio_buffer, processing_thread, result_queue,
                   last_transcription, thread_vars, history_vars, late_add>>

StopJoin ==
    /\ spc = "join"
    /\ \E timed_out \in BOOLEAN : join(processing_thread, timed_out)
    /\ spc' = "idle"
    /\ UNCHANGED <<server_vars, transcriber_vars, thread_vars, history_vars,
                   stopped_at, late_add>>

\* self.transcriber.transcribe(audio_chunk) never returns.
T_Hang(t) ==
    /\ tpc[t] = "engine"
    /\ tpc' = [tpc EXCEPT ![t] = "hung"]
    /\ UNCHANGED <<server_vars, transcriber_vars, audio_chunk, history_vars,
                   caller_vars>>

StopNext ==
    \/ \E floats \in CallerAudio : Call_add_audio(floats)
    \/ StopBegin
    \/ StopJoin
    \/ \E t \in Threads : T_Connect(t)
    \/ \E t \in Threads : T_Check(t)
    \/ \E t \in Threads : T_Snapshot(t)
    \/ \E t \in Threads : T_Transcribe(t)
    \/ \E t \in Threads : T_Except(t)
    \/ \E t \in Threads : T_Hang(t)

StopSpec == Init /\ [][StopNext]_vars

\* The decode threads are scheduled (an engine call returns or is stuck for
\* good) and the join's timeout runs out.
StopFairness ==
    /\ \A t \in Threads :
          WF_vars(T_Connect(t) \/ T_Check(t) \/ T_Snapshot(t)
                    \/ T_Transcribe(t) \/ T_Except(t) \/ T_Hang(t))
    /\ WF_vars(StopJoin)

FairStopSpec == StopSpec /\ StopFairness

\* ------------------------------------------------------------------ claims
\* The k most recent elements of a sequence, oldest first.
MostRecent(s, k) == [i \in 1..k |-> s[Len(s) - k + i]]

\* How often result number n was sent, on any connection.
SentCount(n) ==
    Cardinality({<<c, i>> \in Conns \X (1..MaxChunks) :
                    i <= Len(sent[c]) /\ sent[c][i].seq = n})

\* RFC 4648 base64: groups of four alphabet characters, the last group
\* ending in at most two "=".
IsBase64(s) ==
    /\ Len(s) % 4 = 0
    /\ \A i \in 1..Len(s) :
          \/ IsB64Char(s[i])
          \/ /\ s[i] = "="
             /\ i >= Len(s) - 1
             /\ \A j \in i..Len(s) : s[j] = "="

\* C1: with the input-derived engine and two sessions with ids of their
\* own, every transcription delivered on a connection is derived only from
\* audio sent on that connection (whose samples all have the connection's
\* own value).
C1_OnlyOwnAudio ==
    (engine_stub = "derived" /\ session_id[1] # session_id[2]) =>
        \A c \in Conns : \A i \in 1..Len(sent[c]) :
            \A k \in 1..Len(sent[c][i].text) :
                sent[c][i].text[k] = Digits[c + 1]

\* C2: with the engine returning the same non-empty text on every
\* invocation, exactly one result is ever queued: none before the first
\* return, one from then on.
C2_SameTextQueuedOnce ==
    engine_stub = "same" => Len(pushed) = (IF returned = 0 THEN 0 ELSE 1)

C2_Witness ==
    /\ engine_stub = "same"
    /\ returned = MaxReturns
    /\ Len(pushed) = 1

\* C3: once an end_session message has been handled on an open connection,
\* is_processing is false and active_sessions has no entry under the
\* session id.
C3_EndSessionTearsDown ==
    \A c \in Conns :
        (cstate[c] = "open" /\ phase[c] = "ended") =>
            /\ ~is_processing
            /\ session_id[c] \notin DOMAIN active_sessions

\* C4: the audio buffer never holds more than Capacity samples and always
\* equals the most recent min(total appended, Capacity) samples, in order.
C4_RingBuffer ==
    /\ Len(audio_buffer) <= Capacity
    /\ audio_buffer = MostRecent(appended, Min(Len(appended), Capacity))

C4_Witness ==
    /\ Len(appended) > Capacity
    /\ Len(audio_buffer) = Capacity
    /\ audio_buffer[1] # audio_buffer[Capacity]

\* C5: the window a decode iteration takes is exactly the min(Window, size)
\* most recently appended samples in order, and taking it leaves the buffer
\* as it was.
C5_WindowIsMostRecent ==
    [][\A t \in Threads :
          T_Snapshot(t) =>
              /\ audio_chunk'[t] =
                    MostRecent(appended, Min(Window, Len(audio_buffer)))
              /\ audio_buffer' = audio_buffer]_vars

C5_Witness ==
    \E t \in Threads :
        /\ tpc[t] = "engine"
        /\ Len(audio_chunk[t]) = Window
        /\ Len(appended) > Capacity
        /\ audio_chunk[t] # MostRecent(audio_buffer, Window)

\* C6: a frame that is not JSON, or an audio_chunk whose data is not valid
\* base64, is answered by a logged error only: the connection, the
\* registry, the handler and the whole transcriber stay as they were.
C6_BadPayloadOnlyLogged ==
    [][\A c \in Conns : \A m \in Messages[c] :
          (/\ ~m.json \/ (m.type = "audio_chunk" /\ ~IsBase64(m.data))
           /\ Receive(c, m)) =>
              /\ log_level(c, m) = "error"
              /\ UNCHANGED <<cstate, active_sessions, hpc, audio_buffer,
                             is_processing, tpc>>]_vars

\* C7: every result put on the queue is sent exactly once: never twice, and
\* eventually.
C7_SentExactlyOnce ==
    /\ [](\A n \in 1..MaxChunks : SentCount(n) <= 1)
    /\ \A n \in 1..MaxChunks : (Len(pushed) >= n) ~> (SentCount(n) = 1)

\* C8: the results get_results has returned, followed by those it is
\* collecting and those still queued, are the results put, in the order
\* they were put.
C8_DrainedInPutOrder ==
    LET collecting == {c \in Conns : hpc[c] = "drain"} IN
    /\ Cardinality(collecting) <= 1
    /\ drained
         \o (IF collecting = {} THEN <<>>
             ELSE results[CHOOSE c \in collecting : TRUE])
         \o result_queue
       = pushed

C8_Witness ==
    \E c \in Conns :
        /\ hpc[c] = "drain"
        /\ results[c] # <<>>
        /\ result_queue # <<>>

\* C9: every live connection has the entry under its session id to itself:
\* the entry is there and holds that connection's websocket.
C9_OneConnectionPerSessionId ==
    \A c \in Conns :
        cstate[c] = "open" =>
            /\ session_id[c] \in DOMAIN active_sessions
            /\ active_sessions[session_id[c]].websocket = c

\* C10: once a connection's handler has returned, it has removed its
\* session's entry exactly once and the registry holds no entry of it.
C10_RemovedExactlyOnce ==
    \A c \in Conns :
        cstate[c] = "closed" =>
            /\ removals[c] = 1
            /\ \A x \in DOMAIN active_sessions : active_sessions[x].websocket # c

\* What every step of connection c's handler has in common: no other
\* handler is inside get_results, the other connections' handlers stay where
\* they are, and so do the decode threads, apart from a fresh one starting.
ByHandler(c) ==
    /\ LoopFree
    /\ \A d \in Conns \ {c} :
          hpc'[d] = hpc[d] /\ cstate'[d] = cstate[d] /\ phase'[d] = phase[d]
    /\ audio_chunk' = audio_chunk
    /\ \A t \in Threads :
          tpc'[t] = tpc[t] \/ (tpc[t] = "unstarted" /\ tpc'[t] = "connect")

\* C11: an audio_chunk handled before any start_session is handled exactly
\* as one after start_session: the connection stays open in the same
\* protocol state, the samples it decodes to (none when the data is
\* rejected) are appended to the buffer, and the handler goes on to drain
\* results or back to waiting for the next message.
C11_AudioBeforeStart ==
    [][\A c \in Conns :
          (/\ cstate[c] = "open"
           /\ hpc[c] = "idle"
           /\ phase[c] \in {"created", "active"}
           /\ ByHandler(c)) =>
              \A m \in Messages[c] :
                  (m.json /\ m.type = "audio_chunk" /\ Receive(c, m)) =>
                      /\ cstate'[c] = "open"
                      /\ phase'[c] = phase[c]
                      /\ audio_buffer' =
                            deque_extend(audio_buffer,
                                         DecodedAudio[m.data].floats, Capacity)
                      /\ hpc'[c] = IF DecodedAudio[m.data].ok
                                   THEN "drain" ELSE "idle"]_vars

C11_Witness ==
    /\ \A d \in Conns : phase[d] = "created"
    /\ \E c \in Conns :
          /\ cstate[c] = "open"
          /\ hpc[c] = "drain"
          /\ audio_buffer # <<>>

\* C12: once the only connection there has been has disconnected, the
\* teardown has cleared is_processing and no decode thread is alive.
C12_DisconnectStopsLoop ==
    (cstate[1] = "closed" /\ cstate[2] = "new") =>
        /\ ~is_processing
        /\ \A t \in Threads : ~is_alive(t)

\* C13: when add_audio returns, is_processing is set and the thread in
\* processing_thread is alive.
C13_AddAudioLeavesLoopRunning ==
    [][\A c \in Conns : \A m \in Messages[c] :
          (/\ m.json
           /\ m.type = "audio_chunk"
           /\ DecodedAudio[m.data].ok
           /\ Receive(c, m)) =>
              /\ is_processing'
              /\ processing_thread' # 0
              /\ tpc'[processing_thread'] \in Alive]_vars

\* C14: an engine invocation that raises queues nothing, leaves
\* last_transcription and the flag as they were and takes the thread to the
\* except clause, alive; from there the thread reaches the next engine
\* invocation unless the flag is cleared.
C14_EngineFailureKeepsLoop ==
    /\ [][\A t \in Threads :
             Transcribed(t, Raised) =>
                 /\ result_queue' = result_queue
                 /\ pushed' = pushed
                 /\ last_transcription' = last_transcription
                 /\ is_processing' = is_processing
                 /\ tpc'[t] = "except"]_vars
    /\ \A t \in Threads :
          (tpc[t] = "except") ~> (tpc[t] = "engine" \/ ~is_processing)

C14_Witness ==
    \E t \in Threads :
        /\ tpc[t] = "except"
        /\ is_processing
        /\ pushed = <<>>
        /\ last_transcription = <<>>

\* Text with a character that is not whitespace in it.
NonBlank(text) == \E k \in 1..Len(text) : text[k] \notin Whitespace

\* C15: no result with empty or blank text is ever queued or sent, and with
\* the engine that only returns nothing or blank text nothing is queued,
\* nothing is sent and last_transcription keeps its initial value.
C15_NoEmptyText ==
    /\ \A i \in 1..Len(pushed) : NonBlank(pushed[i].text)
    /\ \A i \in 1..Len(result_queue) : NonBlank(result_queue[i].text)
    /\ \A c \in Conns : \A i \in 1..Len(sent[c]) : NonBlank(sent[c][i].text)
    /\ engine_stub = "empty" =>
          /\ pushed = <<>>
          /\ last_transcription = <<>>
          /\ \A c \in Conns : sent[c] = <<>>

C15_Witness ==
    /\ engine_stub = "empty"
    /\ returned = MaxReturns
    /\ pushed = <<>>
    /\ \E c \in Conns : hpc[c] = "drain"

\* C16: a thread that is about to copy the window or is inside the engine
\* has seen at least Window samples in the buffer, and the engine is called
\* with exactly Window samples.
C16_NoDecodeBelowThreshold ==
    \A t \in Threads :
        /\ tpc[t] \in {"snap", "engine", "hung", "except"} =>
              Len(audio_buffer) >= Window
        /\ tpc[t] \in {"engine", "hung"} => Len(audio_chunk[t]) = Window

C16_Witness ==
    \E t \in Threads :
        /\ tpc[t] = "engine"
        /\ Len(appended) = Window
        /\ batches = 2

\* C17: while the flag is cleared, at most one result has been queued since
\* stop() cleared it; a thread that finds the flag cleared at the head of
\* its loop exits; and every thread alive with the flag cleared eventually
\* ends, unless it is inside an engine invocation that never returns.
C17_StopEndsLoop ==
    /\ [](~is_processing => Len(pushed) <= stopped_at + 1)
    /\ [][\A t \in Threads :
             (~is_processing /\ T_Check(t)) => tpc'[t] = "exited"]_vars
    /\ \A t \in Threads :
          (~is_processing /\ is_alive(t)) ~> (~is_alive(t) \/ tpc[t] = "hung")

C17_Witness ==
    /\ late_add
    /\ ~is_processing
    /\ tpc[1] = "exited"
    /\ tpc[2] = "unstarted"
    /\ Len(pushed) = stopped_at + 1

\* C18: a caller inside stop()'s join always gets out of it.
C18_StopReturns == (spc = "join") ~> (spc = "idle")

C18_Witness ==
    /\ spc = "idle"
    /\ ~is_processing
    /\ processing_thread # 0
    /\ tpc[processing_thread] = "hung"

\* C19: ending a session that has already been ended by end_session (a second
\* end_session, a disconnect) or a transcriber that has already been
\* stopped (a second stop()) leaves the flag, the decode threads, the
\* buffer, the result queue and the registry as they were.
C19_EndingTwiceChangesNothing ==
    [][(\/ \E c \in Conns :
            /\ cstate[c] = "open"
            /\ phase[c] = "ended"
            /\ \/ Receive(c, Control("end_session"))
               \/ \E cause \in {"disconnect", "error"} : Teardown(c, cause)
        \/ /\ ~is_processing
           /\ processing_thread # 0
           /\ StopBegin)
          => UNCHANGED <<is_processing, processing_thread, tpc, audio_buffer,
                         result_queue, active_sessions>>]_vars

\* C20: at most one decode thread is alive.
C20_OneDecodeThread == Cardinality({t \in Threads : is_alive(t)}) <= 1

C20_Witness ==
    /\ late_add
    /\ tpc[1] \in {"exited", "failed"}
    /\ is_alive(2)

====
